---- MODULE Spec2Model ----
(***************************************************************************)
(* utils_nlp/dataset/bbc_hindi.py: load_pandas_df, load_dataset and        *)
(* get_label_values, as a state machine.                                   *)
(*                                                                         *)
(* A label (a category string of column 0) is an integer code whose order  *)
(* is the lexicographic order of the strings; a text (column 1) is an      *)
(* integer naming the row of the file it comes from.  A data frame is a    *)
(* sequence of rows [index, c0, c1]: index is the pandas index label, c0   *)
(* the label column, c1 the text column.  A float ratio r is the integer   *)
(* r * RatioDen, so 1.0 is RatioDen.                                       *)
(***************************************************************************)
EXTENDS Integers, Sequences, FiniteSets, TLC

\* Bounds of the model.
MaxRows == 2
NumLabels == 2
RatioDen == 4
MaxIds == 2

VARIABLES
    files,              \* the two CSV files inside the remote tarball
    args,               \* the arguments of the current load_dataset call
    pc,                 \* the statement load_dataset is about to execute
    train_df, test_df,  \* locals of load_dataset
    label_encoder,
    train_sample_ratio, test_sample_ratio,
    train_pick, test_pick,   \* the index of what .sample() returned
    train_labels, test_labels,
    train_dataset, test_dataset,
    logged,             \* what the call sent to logging
    error,              \* the exception that left the call, if any
    ret,                \* the tuple the call returned, if any
    done,               \* the steps the call has completed, in order
    prev,               \* the previous call that returned, as the caller saw it
    probe               \* a caller's use of the encoder and get_label_values

vars == <<files, args, pc, train_df, test_df, label_encoder,
          train_sample_ratio, test_sample_ratio, train_pick, test_pick,
          train_labels, test_labels, train_dataset, test_dataset,
          logged, error, ret, done, prev, probe>>

----------------------------------------------------------------------------
\* Values

One == RatioDen
Ratios == -1 .. (RatioDen + 1)
Labels == {10 * i : i \in 1 .. NumLabels}
Seeds == {"None", "42"}
TestFractions == {1, RatioDen}

NoArgs == [test_fraction |-> 0, random_seed |-> "None",
           train_sample_ratio |-> 0, test_sample_ratio |-> 0]
NoCall == [returned |-> FALSE]
NoProbe == [kind |-> "none"]
Unfitted == [fitted |-> FALSE, classes_ |-> <<>>]

\* A CSV file: one line per row, label <TAB> text.
CsvFiles(base) ==
    UNION {{[i \in 1 .. n |-> <<lab[i], base + i>>] : lab \in [1 .. n -> Labels]}
           : n \in 1 .. MaxRows}

ArgSpace ==
    [test_fraction : TestFractions, random_seed : Seeds,
     train_sample_ratio : Ratios, test_sample_ratio : Ratios]

Min(a, b) == IF a < b THEN a ELSE b

\* The calls a caller makes after one that returned: the same call again, the
\* same call with another test_fraction, the same call with the ratios above
\* 1.0 written as 1.0.
Clamped(a) ==
    [a EXCEPT !.train_sample_ratio = Min(@, One), !.test_sample_ratio = Min(@, One)]

Variants(a) ==
    {a} \cup {[a EXCEPT !.test_fraction = f] : f \in TestFractions} \cup {Clamped(a)}

----------------------------------------------------------------------------
\* pandas

\* pd.read_csv(path, sep="\t", header=None): a RangeIndex from 0, columns 0, 1.
ReadCsv(file) ==
    [i \in 1 .. Len(file) |-> [index |-> i - 1, c0 |-> file[i][1], c1 |-> file[i][2]]]

Column0(df) == [i \in 1 .. Len(df) |-> df[i].c0]
Column1(df) == [i \in 1 .. Len(df) |-> df[i].c1]
IndexOf(df) == [i \in 1 .. Len(df) |-> df[i].index]

\* Python's round() of the float num / den (num >= 0): half to even.
Round(num, den) ==
    LET q == num \div den
        r == num % den
    IN  IF 2 * r < den THEN q
        ELSE IF 2 * r > den THEN q + 1
        ELSE IF q % 2 = 0 THEN q ELSE q + 1

\* The sequences of k different positions of 1 .. n.
Picks(n, k) ==
    {p \in [1 .. k -> 1 .. n] : \A i, j \in 1 .. k : i # j => p[i] # p[j]}

\* Sampling with replacement (replace=True).
SampleWithReplacement(df, ratio) ==
    {[i \in 1 .. Len(p) |-> df[p[i]]] :
        p \in [1 .. Round(ratio * Len(df), RatioDen) -> 1 .. Len(df)]}

\* df.sample(frac=r) with random_state=None: round(r * len(df)) rows drawn
\* without replacement by numpy's global generator, the index kept.
Sample(df, ratio) ==
    {[i \in 1 .. Len(p) |-> df[p[i]]] : p \in Picks(Len(df), Round(ratio * Len(df), RatioDen))}

\* .reset_index(drop=True)
ResetIndex(df) == [i \in 1 .. Len(df) |-> [df[i] EXCEPT !.index = i - 1]]

----------------------------------------------------------------------------
\* sklearn.preprocessing.LabelEncoder

RECURSIVE SortedSeq(_)
SortedSeq(S) ==
    IF S = {} THEN <<>>
    ELSE LET m == CHOOSE x \in S : \A z \in S : x <= z
         IN  <<m>> \o SortedSeq(S \ {m})

Range(s) == {s[i] : i \in 1 .. Len(s)}

\* label_encoder.fit(y): classes_ = np.unique(y)
Fit(col) == [fitted |-> TRUE, classes_ |-> SortedSeq(Range(col))]

\* label_encoder.transform(y): ValueError on a label not in classes_, else the
\* position of each label in the sorted classes_, from 0.
Transform(enc, col) ==
    IF \E i \in 1 .. Len(col) : col[i] \notin Range(enc.classes_)
    THEN [ok |-> FALSE, ids |-> <<>>]
    ELSE [ok |-> TRUE,
          ids |-> [i \in 1 .. Len(col) |->
                     Cardinality({j \in 1 .. Len(enc.classes_) : enc.classes_[j] < col[i]})]]

\* label_encoder.inverse_transform(ids): ValueError on an id outside
\* 0 .. len(classes_) - 1, else classes_[ids].
InverseTransform(enc, ids) ==
    IF \E i \in 1 .. Len(ids) : ids[i] \notin 0 .. (Len(enc.classes_) - 1)
    THEN [ok |-> FALSE, values |-> <<>>]
    ELSE [ok |-> TRUE, values |-> [i \in 1 .. Len(ids) |-> enc.classes_[ids[i] + 1]]]

\* classes_ indexed one place off (Python wraps index -1 to the last class).
get_label_values_shifted(enc, label_ids) ==
    LET v == InverseTransform(enc, label_ids)
        n == Len(enc.classes_)
    IN  [v EXCEPT !.values = [i \in 1 .. Len(@) |-> enc.classes_[((label_ids[i] - 1) % n) + 1]]]

get_label_values(enc, label_ids) == InverseTransform(enc, label_ids)

\* processor.preprocess(text=..., labels=..., max_len=...): one example per row,
\* the text and the label ID it was given.
Preprocess(text, labels) ==
    [i \in 1 .. Len(text) |-> [text |-> text[i], label |-> labels[i]]]

----------------------------------------------------------------------------
\* load_dataset

\* A range check that raises on both sides of [0, 1].
CheckRatioRaisesAbove(ratio, which) ==
    IF ratio > One \/ ratio < 0
    THEN [ratio |-> ratio, log |-> << <<"error", which>> >>, raises |-> TRUE]
    ELSE [ratio |-> ratio, log |-> <<>>, raises |-> FALSE]

\* A range check that warns about a ratio above 1.0 and leaves it as it is.
CheckRatioNoClamp(ratio, which) ==
    IF ratio > One
    THEN [ratio |-> ratio, log |-> << <<"warning", which>> >>, raises |-> FALSE]
    ELSE IF ratio < 0
    THEN [ratio |-> ratio, log |-> << <<"error", which>> >>, raises |-> TRUE]
    ELSE [ratio |-> ratio, log |-> <<>>, raises |-> FALSE]

\* The range check of one sample ratio.
CheckRatio(ratio, which) ==
    IF ratio > One
    THEN [ratio |-> One, log |-> << <<"warning", which>> >>, raises |-> FALSE]
    ELSE IF ratio < 0
    THEN [ratio |-> ratio, log |-> << <<"error", which>> >>, raises |-> TRUE]
    ELSE [ratio |-> ratio, log |-> <<>>, raises |-> FALSE]

\* The column the encoder is fit on.
FitColumn == Column0(train_df)

Locals0 ==
    /\ train_df = <<>> /\ test_df = <<>>
    /\ label_encoder = Unfitted
    /\ train_pick = <<>> /\ test_pick = <<>>
    /\ train_labels = <<>> /\ test_labels = <<>>
    /\ train_dataset = <<>> /\ test_dataset = <<>>
    /\ logged = <<>> /\ error = "none" /\ ret = <<>> /\ done = <<>>

\* A call starts with none of its locals bound.
Locals0Next ==
    /\ train_df' = <<>> /\ test_df' = <<>>
    /\ label_encoder' = Unfitted
    /\ train_pick' = <<>> /\ test_pick' = <<>>
    /\ train_labels' = <<>> /\ test_labels' = <<>>
    /\ train_dataset' = <<>> /\ test_dataset' = <<>>
    /\ logged' = <<>> /\ error' = "none" /\ ret' = <<>> /\ done' = <<>>

Init ==
    /\ files \in [train : CsvFiles(100), test : CsvFiles(200)]
    /\ args = NoArgs
    /\ pc = "idle"
    /\ train_sample_ratio = 0 /\ test_sample_ratio = 0
    /\ Locals0
    /\ prev = NoCall
    /\ probe = NoProbe

\* What the caller holds of a call that returned.
Returned ==
    [returned |-> TRUE, args |-> args, train_df |-> train_df, test_df |-> test_df,
     train_pick |-> train_pick, test_pick |-> test_pick, ret |-> ret]

\* load_dataset(test_fraction, random_seed, train_sample_ratio, test_sample_ratio)
Call(a) ==
    /\ pc \in {"idle", "returned"}
    /\ a \in (IF pc = "idle" THEN ArgSpace ELSE Variants(args))
    /\ prev' = IF pc = "returned" THEN Returned ELSE prev
    /\ args' = a
    /\ train_sample_ratio' = a.train_sample_ratio
    /\ test_sample_ratio' = a.test_sample_ratio
    /\ Locals0Next
    /\ pc' = "download"
    /\ UNCHANGED <<files, probe>>

Step(from, to) ==
    /\ pc = from
    /\ pc' = to
    /\ done' = Append(done, from)

\* maybe_download(URL, zipped_file, local_cache_path)
Download ==
    /\ Step("download", "open")
    /\ UNCHANGED <<files, args, train_df, test_df, label_encoder,
                   train_sample_ratio, test_sample_ratio, train_pick, test_pick,
                   train_labels, test_labels, train_dataset, test_dataset,
                   logged, error, ret, prev, probe>>

\* tarfile.open(zipped_file_path, "r:gz")
OpenTar ==
    /\ Step("open", "extract")
    /\ UNCHANGED <<files, args, train_df, test_df, label_encoder,
                   train_sample_ratio, test_sample_ratio, train_pick, test_pick,
                   train_labels, test_labels, train_dataset, test_dataset,
                   logged, error, ret, prev, probe>>

\* tar.extractall(path=local_cache_path); tar.close()
Extract ==
    /\ Step("extract", "read_train")
    /\ UNCHANGED <<files, args, train_df, test_df, label_encoder,
                   train_sample_ratio, test_sample_ratio, train_pick, test_pick,
                   train_labels, test_labels, train_dataset, test_dataset,
                   logged, error, ret, prev, probe>>

\* train_df = pd.read_csv(train_csv_file_path, ...)
ReadTrain ==
    /\ Step("read_train", "read_test")
    /\ train_df' = ReadCsv(files.train)
    /\ UNCHANGED <<files, args, test_df, label_encoder,
                   train_sample_ratio, test_sample_ratio, train_pick, test_pick,
                   train_labels, test_labels, train_dataset, test_dataset,
                   logged, error, ret, prev, probe>>

\* A test frame cut to the first test_fraction of its rows.
ReadTestSplit ==
    /\ Step("read_test", "fit")
    /\ test_df' = SubSeq(ReadCsv(files.test), 1,
                         Round(args.test_fraction * Len(files.test), RatioDen))
    /\ UNCHANGED <<files, args, train_df, label_encoder,
                   train_sample_ratio, test_sample_ratio, train_pick, test_pick,
                   train_labels, test_labels, train_dataset, test_dataset,
                   logged, error, ret, prev, probe>>

\* test_df = pd.read_csv(test_csv_file_path, ...); return (train_df, test_df)
ReadTest ==
    /\ Step("read_test", "fit")
    /\ test_df' = ReadCsv(files.test)
    /\ UNCHANGED <<files, args, train_df, label_encoder,
                   train_sample_ratio, test_sample_ratio, train_pick, test_pick,
                   train_labels, test_labels, train_dataset, test_dataset,
                   logged, error, ret, prev, probe>>

CollaboratorSteps == {"download", "open", "extract", "read_train", "read_test"}

PipelineOrder ==
    <<"download", "open", "extract", "read_train", "read_test", "fit",
      "check_train", "check_test", "sample_train", "sample_test",
      "transform_train", "transform_test", "preprocess_train", "preprocess_test",
      "return">>

\* A collaborator's exception caught and dropped (try: ... except: pass).
CollaboratorSwallowed ==
    /\ pc \in CollaboratorSteps
    /\ error' = pc
    /\ pc' = PipelineOrder[Len(done) + 2]
    /\ done' = Append(done, pc)
    /\ UNCHANGED <<files, args, train_df, test_df, label_encoder,
                   train_sample_ratio, test_sample_ratio, train_pick, test_pick,
                   train_labels, test_labels, train_dataset, test_dataset,
                   logged, ret, prev, probe>>

\* A collaborator of load_pandas_df raises (network, corrupt archive, missing
\* or empty file); nothing catches it.
CollaboratorRaises ==
    /\ pc \in CollaboratorSteps
    /\ error' = pc
    /\ pc' = "raised"
    /\ UNCHANGED <<files, args, train_df, test_df, label_encoder,
                   train_sample_ratio, test_sample_ratio, train_pick, test_pick,
                   train_labels, test_labels, train_dataset, test_dataset,
                   logged, ret, done, prev, probe>>

\* The encoder fit on the sub-sampled train frame.
FitAfterSampling ==
    /\ Step("fit", "check_train")
    /\ IF train_sample_ratio >= 0 /\ train_sample_ratio < One
       THEN \E s \in Sample(train_df, train_sample_ratio) :
                label_encoder' = Fit(Column0(s))
       ELSE label_encoder' = Fit(Column0(train_df))
    /\ UNCHANGED <<files, args, train_df, test_df,
                   train_sample_ratio, test_sample_ratio, train_pick, test_pick,
                   train_labels, test_labels, train_dataset, test_dataset,
                   logged, error, ret, prev, probe>>

\* label_encoder = LabelEncoder(); label_encoder.fit(train_df[0])
FitEncoder ==
    /\ Step("fit", "check_train")
    /\ label_encoder' = Fit(FitColumn)
    /\ UNCHANGED <<files, args, train_df, test_df,
                   train_sample_ratio, test_sample_ratio, train_pick, test_pick,
                   train_labels, test_labels, train_dataset, test_dataset,
                   logged, error, ret, prev, probe>>

\* if train_sample_ratio > 1.0: ... elif train_sample_ratio < 0: ... raise
CheckTrain ==
    LET c == CheckRatio(train_sample_ratio, "train")
    IN  /\ pc = "check_train"
        /\ train_sample_ratio' = c.ratio
        /\ logged' = logged \o c.log
        /\ IF c.raises
           THEN pc' = "raised" /\ error' = "ValueError" /\ done' = done
           ELSE pc' = "check_test" /\ error' = error /\ done' = Append(done, pc)
        /\ UNCHANGED <<files, args, train_df, test_df, label_encoder,
                       test_sample_ratio, train_pick, test_pick,
                       train_labels, test_labels, train_dataset, test_dataset,
                       ret, prev, probe>>

\* if test_sample_ratio > 1.0: ... elif test_sample_ratio < 0: ... raise
CheckTest ==
    LET c == CheckRatio(test_sample_ratio, "test")
    IN  /\ pc = "check_test"
        /\ test_sample_ratio' = c.ratio
        /\ logged' = logged \o c.log
        /\ IF c.raises
           THEN pc' = "raised" /\ error' = "ValueError" /\ done' = done
           ELSE pc' = "sample_train" /\ error' = error /\ done' = Append(done, pc)
        /\ UNCHANGED <<files, args, train_df, test_df, label_encoder,
                       train_sample_ratio, train_pick, test_pick,
                       train_labels, test_labels, train_dataset, test_dataset,
                       ret, prev, probe>>

\* The train frame sampled at 1.0 too (<= for <).
SampleTrainAlways ==
    /\ Step("sample_train", "sample_test")
    /\ IF train_sample_ratio <= One
       THEN \E s \in Sample(train_df, train_sample_ratio) :
                /\ train_pick' = IndexOf(s)
                /\ train_df' = ResetIndex(s)
       ELSE UNCHANGED <<train_df, train_pick>>
    /\ UNCHANGED <<files, args, test_df, label_encoder,
                   train_sample_ratio, test_sample_ratio, test_pick,
                   train_labels, test_labels, train_dataset, test_dataset,
                   logged, error, ret, prev, probe>>

\* if train_sample_ratio < 1.0:
\*     train_df = train_df.sample(frac=train_sample_ratio).reset_index(drop=True)
SampleTrain ==
    /\ Step("sample_train", "sample_test")
    /\ IF train_sample_ratio < One
       THEN \E s \in Sample(train_df, train_sample_ratio) :
                /\ train_pick' = IndexOf(s)
                /\ train_df' = ResetIndex(s)
       ELSE UNCHANGED <<train_df, train_pick>>
    /\ UNCHANGED <<files, args, test_df, label_encoder,
                   train_sample_ratio, test_sample_ratio, test_pick,
                   train_labels, test_labels, train_dataset, test_dataset,
                   logged, error, ret, prev, probe>>

\* if test_sample_ratio < 1.0:
\*     test_df = test_df.sample(frac=test_sample_ratio).reset_index(drop=True)
SampleTest ==
    /\ Step("sample_test", "transform_train")
    /\ IF test_sample_ratio < One
       THEN \E s \in Sample(test_df, test_sample_ratio) :
                /\ test_pick' = IndexOf(s)
                /\ test_df' = ResetIndex(s)
       ELSE UNCHANGED <<test_df, test_pick>>
    /\ UNCHANGED <<files, args, train_df, label_encoder,
                   train_sample_ratio, test_sample_ratio, train_pick,
                   train_labels, test_labels, train_dataset, test_dataset,
                   logged, error, ret, prev, probe>>

\* train_labels = label_encoder.transform(train_df[0])
TransformTrain ==
    LET t == Transform(label_encoder, Column0(train_df))
    IN  /\ pc = "transform_train"
        /\ IF t.ok
           THEN /\ pc' = "transform_test" /\ train_labels' = t.ids
                /\ error' = error /\ done' = Append(done, pc)
           ELSE /\ pc' = "raised" /\ train_labels' = train_labels
                /\ error' = "unseen" /\ done' = done
        /\ UNCHANGED <<files, args, train_df, test_df, label_encoder,
                       train_sample_ratio, test_sample_ratio, train_pick, test_pick,
                       test_labels, train_dataset, test_dataset,
                       logged, ret, prev, probe>>

\* test_labels = label_encoder.transform(test_df[0])
TransformTest ==
    LET t == Transform(label_encoder, Column0(test_df))
    IN  /\ pc = "transform_test"
        /\ IF t.ok
           THEN /\ pc' = "preprocess_train" /\ test_labels' = t.ids
                /\ error' = error /\ done' = Append(done, pc)
           ELSE /\ pc' = "raised" /\ test_labels' = test_labels
                /\ error' = "unseen" /\ done' = done
        /\ UNCHANGED <<files, args, train_df, test_df, label_encoder,
                       train_sample_ratio, test_sample_ratio, train_pick, test_pick,
                       train_labels, train_dataset, test_dataset,
                       logged, ret, prev, probe>>

\* processor = Processor(model_name=..., to_lower=..., cache_dir=...)
\* train_dataset = processor.preprocess(text=train_df[1], labels=train_labels, ...)
PreprocessTrain ==
    /\ Step("preprocess_train", "preprocess_test")
    /\ train_dataset' = Preprocess(Column1(train_df), train_labels)
    /\ UNCHANGED <<files, args, train_df, test_df, label_encoder,
                   train_sample_ratio, test_sample_ratio, train_pick, test_pick,
                   train_labels, test_labels, test_dataset,
                   logged, error, ret, prev, probe>>

\* test_dataset = processor.preprocess(text=test_df[1], labels=test_labels, ...)
PreprocessTest ==
    /\ Step("preprocess_test", "return")
    /\ test_dataset' = Preprocess(Column1(test_df), test_labels)
    /\ UNCHANGED <<files, args, train_df, test_df, label_encoder,
                   train_sample_ratio, test_sample_ratio, train_pick, test_pick,
                   train_labels, test_labels, train_dataset,
                   logged, error, ret, prev, probe>>

\* return (train_dataset, test_dataset, label_encoder)
Return ==
    /\ Step("return", "returned")
    /\ ret' = <<train_dataset, test_dataset, label_encoder>>
    /\ UNCHANGED <<files, args, train_df, test_df, label_encoder,
                   train_sample_ratio, test_sample_ratio, train_pick, test_pick,
                   train_labels, test_labels, train_dataset, test_dataset,
                   logged, error, prev, probe>>

Next ==
    \/ \E a \in ArgSpace : Call(a)
    \/ Download \/ OpenTar \/ Extract \/ ReadTrain \/ ReadTest
    \/ CollaboratorRaises
    \/ FitEncoder \/ CheckTrain \/ CheckTest
    \/ SampleTrain \/ SampleTest
    \/ TransformTrain \/ TransformTest
    \/ PreprocessTrain \/ PreprocessTest
    \/ Return

Spec == Init /\ [][Next]_vars

----------------------------------------------------------------------------
\* A caller of the encoder and of get_label_values

LabelSeqs == UNION {[1 .. n -> Labels] : n \in 0 .. MaxIds}
IdSeqs == UNION {[1 .. n -> -1 .. NumLabels] : n \in 0 .. MaxIds}

\* get_label_values(label_encoder, label_encoder.transform(x))
EncodeDecode(x) ==
    LET t == Transform(label_encoder, x)
        v == get_label_values(label_encoder, t.ids)
    IN  /\ label_encoder.fitted /\ probe = NoProbe
        /\ x \in LabelSeqs
        /\ probe' = [kind |-> "encode_decode", input |-> x, ok |-> t.ok /\ v.ok,
                      output |-> IF t.ok THEN v.values ELSE <<>>]
        /\ UNCHANGED <<files, args, pc, train_df, test_df, label_encoder,
                       train_sample_ratio, test_sample_ratio, train_pick, test_pick,
                       train_labels, test_labels, train_dataset, test_dataset,
                       logged, error, ret, done, prev>>

\* label_encoder.transform(get_label_values(label_encoder, ids))
DecodeEncode(ids) ==
    LET v == get_label_values(label_encoder, ids)
        t == Transform(label_encoder, v.values)
    IN  /\ label_encoder.fitted /\ probe = NoProbe
        /\ ids \in IdSeqs
        /\ probe' = [kind |-> "decode_encode", input |-> ids, ok |-> v.ok /\ t.ok,
                      output |-> IF v.ok THEN t.ids ELSE <<>>]
        /\ UNCHANGED <<files, args, pc, train_df, test_df, label_encoder,
                       train_sample_ratio, test_sample_ratio, train_pick, test_pick,
                       train_labels, test_labels, train_dataset, test_dataset,
                       logged, error, ret, done, prev>>

\* load_dataset called with its defaults, load_pandas_df just returned.
InitLabels ==
    /\ files \in [train : CsvFiles(100), test : CsvFiles(200)]
    /\ args = [test_fraction |-> One, random_seed |-> "None",
               train_sample_ratio |-> One, test_sample_ratio |-> One]
    /\ pc = "fit"
    /\ train_sample_ratio = One /\ test_sample_ratio = One
    /\ train_df = ReadCsv(files.train) /\ test_df = ReadCsv(files.test)
    /\ label_encoder = Unfitted
    /\ train_pick = <<>> /\ test_pick = <<>>
    /\ train_labels = <<>> /\ test_labels = <<>>
    /\ train_dataset = <<>> /\ test_dataset = <<>>
    /\ logged = <<>> /\ error = "none" /\ ret = <<>>
    /\ done = <<"download", "open", "extract", "read_train", "read_test">>
    /\ prev = NoCall
    /\ probe = NoProbe

NextLabels ==
    \/ FitEncoder
    \/ \E x \in LabelSeqs : EncodeDecode(x)
    \/ \E ids \in IdSeqs : DecodeEncode(ids)

SpecLabels == InitLabels /\ [][NextLabels]_vars

----------------------------------------------------------------------------
\* Properties

Has(step) == \E i \in 1 .. Len(done) : done[i] = step
Abs(x) == IF x < 0 THEN -x ELSE x
TrainFrame == ReadCsv(files.train)
TestFrame == ReadCsv(files.test)
Below0 == args.train_sample_ratio < 0 \/ args.test_sample_ratio < 0
BothReturned == prev.returned /\ pc = "returned"
SamePicks == prev.train_pick = train_pick /\ prev.test_pick = test_pick
SameOutcome == prev.train_df = train_df /\ prev.test_df = test_df /\ prev.ret = ret

\* C1, as the spec states it: a call with a sample ratio below 0 or above 1
\* raises and returns no datasets.
C1_RaisesOutsideUnitInterval ==
    (args.train_sample_ratio \notin 0 .. One \/ args.test_sample_ratio \notin 0 .. One)
        => pc # "returned" /\ ret = <<>>

\* C1, amended: a call whose frames were loaded and that has a sample ratio
\* below 0 logs an error, raises ValueError at the range check of that ratio
\* and returns nothing; the range check raises for no other ratio, a ratio
\* above 1 included.
C1_RaisesBelowZero ==
    /\ Below0 => ~Has("check_test") /\ pc # "returned" /\ ret = <<>>
    /\ (args.train_sample_ratio < 0 /\ Has("fit") /\ pc # "check_train")
           => pc = "raised" /\ error = "ValueError" /\ logged = << <<"error", "train">> >>
    /\ (args.train_sample_ratio >= 0 /\ args.test_sample_ratio < 0
            /\ Has("check_train") /\ pc # "check_test")
           => /\ pc = "raised" /\ error = "ValueError"
              /\ logged[Len(logged)] = <<"error", "test">>
    /\ error = "ValueError" => Below0

\* The train ratio is above 1 and clamped, then the test ratio below 0 raises.
C1_Witness ==
    /\ pc = "raised" /\ error = "ValueError"
    /\ args.train_sample_ratio > One /\ args.test_sample_ratio < 0
    /\ train_sample_ratio = One

\* C2: a sample ratio above 1.0 is replaced by 1.0 with a warning logged, its
\* frame is not sub-sampled, and the call returns what the call with that
\* ratio written as 1.0 returns (the sampling of the other frame being equal).
C2_AboveOneIsOne ==
    /\ (args.train_sample_ratio > One /\ Has("check_train"))
           => train_sample_ratio = One /\ <<"warning", "train">> \in Range(logged)
    /\ (args.test_sample_ratio > One /\ Has("check_test"))
           => test_sample_ratio = One /\ <<"warning", "test">> \in Range(logged)
    /\ (args.train_sample_ratio > One /\ Has("sample_train"))
           => train_pick = <<>> /\ train_df = TrainFrame
    /\ (args.test_sample_ratio > One /\ Has("sample_test"))
           => test_pick = <<>> /\ test_df = TestFrame
    /\ (BothReturned /\ prev.args # args /\ args = Clamped(prev.args) /\ SamePicks)
           => SameOutcome

\* A call with train ratio above 1 and a sampled test frame, then the same call
\* with the train ratio 1.0.
C2_Witness ==
    /\ BothReturned /\ SamePicks
    /\ prev.args.train_sample_ratio > One /\ args = Clamped(prev.args)
    /\ Len(train_df) = MaxRows /\ Len(test_pick) > 0
    /\ <<"warning", "train">> \notin Range(logged)

\* What C3 says of a frame df sampled with ratio from the n rows of file.
SampledFrom(df, pick, file, ratio) ==
    /\ Abs(Len(df) * RatioDen - ratio * Len(file)) < RatioDen
    /\ Len(pick) = Len(df)
    /\ \A i \in 1 .. Len(pick) : pick[i] \in 0 .. (Len(file) - 1)
    /\ \A i, j \in 1 .. Len(pick) : i # j => pick[i] # pick[j]
    /\ \A i \in 1 .. Len(df) :
           df[i] = [index |-> i - 1, c0 |-> file[pick[i] + 1][1], c1 |-> file[pick[i] + 1][2]]

\* C3: with 0 < r < 1 the frame passed on after sampling has k rows with
\* |k - r * n| < 1, they are k different rows of the parsed frame, and its
\* index runs from 0.
C3_SampleSize ==
    /\ (Has("sample_train") /\ train_sample_ratio > 0 /\ train_sample_ratio < One)
           => SampledFrom(train_df, train_pick, files.train, train_sample_ratio)
    /\ (Has("sample_test") /\ test_sample_ratio > 0 /\ test_sample_ratio < One)
           => SampledFrom(test_df, test_pick, files.test, test_sample_ratio)

\* Two rows drawn from two, in the other order.
C3_Witness ==
    /\ Has("sample_test")
    /\ train_sample_ratio > 0 /\ train_sample_ratio < One
    /\ test_sample_ratio > 0 /\ test_sample_ratio < One
    /\ train_pick = <<1, 0>>
    /\ Len(files.test) = 2 /\ Len(test_df) = 1

\* C4: get_label_values inverts transform: on labels seen during fit,
\* get_label_values(encoder, transform(x)) is x; on valid IDs,
\* transform(get_label_values(encoder, ids)) is ids.
C4_InverseOfTransform ==
    /\ (probe.kind = "encode_decode"
            /\ Range(probe.input) \subseteq Range(label_encoder.classes_))
           => probe.ok /\ probe.output = probe.input
    /\ (probe.kind = "decode_encode"
            /\ Range(probe.input) \subseteq 0 .. (Len(label_encoder.classes_) - 1))
           => probe.ok /\ probe.output = probe.input

\* Two different labels encoded and decoded, with two classes fit.
C4_Witness ==
    /\ probe.kind = "encode_decode" /\ probe.ok
    /\ Len(probe.input) = 2 /\ probe.input[1] > probe.input[2]
    /\ Len(label_encoder.classes_) = 2

\* C5: when load_dataset transforms a label column, every label of the column
\* was seen by the encoder during fit.
C5_LabelsSeenDuringFit ==
    /\ pc = "transform_train" => Range(Column0(train_df)) \subseteq Range(label_encoder.classes_)
    /\ pc = "transform_test" => Range(Column0(test_df)) \subseteq Range(label_encoder.classes_)

\* C6: two calls on the same files with the same random_seed (not None) and
\* the same sample ratios below 1.0 select the same rows in the same order.
C6_SeedFixesSample ==
    (BothReturned /\ prev.args = args /\ args.random_seed # "None"
        /\ args.train_sample_ratio < One /\ args.test_sample_ratio < One)
        => SamePicks /\ prev.train_df = train_df /\ prev.test_df = test_df

\* C7: test_fraction changes nothing: the frames are those of the two files,
\* and two calls that differ in test_fraction only, and sample alike, end with
\* the same frames, datasets and encoder.
C7_TestFractionUnused ==
    /\ (Has("read_test") /\ ~Has("sample_train"))
           => train_df = TrainFrame /\ test_df = TestFrame
    /\ (BothReturned /\ SamePicks
            /\ [args EXCEPT !.test_fraction = prev.args.test_fraction] = prev.args)
           => SameOutcome

\* Two calls that returned, differing in test_fraction, both frames sampled.
C7_Witness ==
    /\ BothReturned /\ SamePicks
    /\ args.test_fraction # prev.args.test_fraction
    /\ [args EXCEPT !.test_fraction = prev.args.test_fraction] = prev.args
    /\ Len(train_pick) > 0 /\ Len(test_pick) > 0 /\ Len(test_df) = 2

\* C8: the steps of a call run in the order download, extract, parse, fit,
\* validate, sample, transform, preprocess train, preprocess test; the encoder
\* is fit on the whole parsed train frame, so the classes are those of the train
\* file for every sample ratio.
C8_PipelineOrder ==
    /\ done = SubSeq(PipelineOrder, 1, Len(done))
    /\ pc \notin {"idle", "returned", "raised"} => pc = PipelineOrder[Len(done) + 1]
    /\ pc = "returned" => done = PipelineOrder
    /\ label_encoder.fitted
           => label_encoder.classes_ = SortedSeq(Range(Column0(TrainFrame)))
    /\ pc = "returned" => ret[3] = Fit(Column0(TrainFrame))

\* A call that sampled the train frame down to nothing returns both classes.
C8_Witness ==
    /\ pc = "returned"
    /\ args.train_sample_ratio = 0 /\ train_df = <<>>
    /\ Len(ret[3].classes_) = 2

\* C9: a collaborator's failure leaves load_dataset as an exception; no later
\* step has run or runs: no fit, no range check, no sampling, no transform, no
\* processor call, and nothing is returned.
C9_CollaboratorFailure ==
    /\ error \in CollaboratorSteps =>
           /\ pc = "raised"
           /\ done = SubSeq(PipelineOrder, 1, Len(done))
           /\ PipelineOrder[Len(done) + 1] = error
           /\ label_encoder = Unfitted /\ logged = <<>>
           /\ train_sample_ratio = args.train_sample_ratio
           /\ test_sample_ratio = args.test_sample_ratio
           /\ train_pick = <<>> /\ test_pick = <<>>
           /\ train_labels = <<>> /\ test_labels = <<>>
           /\ train_dataset = <<>> /\ test_dataset = <<>>
           /\ ret = <<>>
    /\ pc = "raised" => ~ENABLED Next

\* Reading the test file fails after the train file was read.
C9_Witness ==
    /\ pc = "raised" /\ error = "read_test"
    /\ train_df = TrainFrame /\ test_df = <<>>
    /\ args.train_sample_ratio < 0

Texts(dataset) == [i \in 1 .. Len(dataset) |-> dataset[i].text]

\* C10: with both sample ratios 1.0 the parsed frames go on unchanged, not
\* sampled and not re-indexed, and the processor gets every row of each file in
\* file order; the range checks accept the ratios 0 and 1.0.
C10_DefaultsKeepFrames ==
    /\ (args.train_sample_ratio = One /\ args.test_sample_ratio = One /\ Has("read_test"))
           => /\ train_df = TrainFrame /\ test_df = TestFrame
              /\ train_pick = <<>> /\ test_pick = <<>>
    /\ (args.train_sample_ratio = One /\ args.test_sample_ratio = One /\ pc = "returned")
           => /\ Texts(ret[1]) = [i \in 1 .. Len(files.train) |-> files.train[i][2]]
              /\ Texts(ret[2]) = [i \in 1 .. Len(files.test) |-> files.test[i][2]]
    /\ (args.train_sample_ratio \in {0, One} /\ args.test_sample_ratio \in {0, One})
           => error # "ValueError" /\ logged = <<>>

\* The default ratios on two files of two rows each, returned.
C10_Witness ==
    /\ pc = "returned"
    /\ args.train_sample_ratio = One /\ args.test_sample_ratio = One
    /\ Len(ret[1]) = 2 /\ Len(ret[2]) = 2
    /\ files.train[1][1] # files.train[2][1]

====
